---- MODULE Spec2Model ----
(***************************************************************************)
(* Model of the webhook orchestrator of telegram-video-ai-bot              *)
(* (src/telegram-video-ai-bot/src/server.ts): the downloads table, the     *)
(* api_keys table with its least-recently-used selection, the analysis     *)
(* retry loop and the /webhook handler with its await points.              *)
(***************************************************************************)
EXTENDS Integers, Sequences, FiniteSets, TLC

\* ------------------------------------------------------------------ bounds
\* Number of distinct credentials that can be configured.
MaxKeys == 2
\* Number of distinct inbound message ids.
MaxMsg == 2
\* Number of distinct urls a message text can carry.
MaxUrls == 1
\* Number of inbound events (each handled by its own invocation of the handler).
MaxEvents == 3
\* Number of heartbeat ticks of one status interval that are followed.
MaxBeats == 1
\* Largest value of the one-second clock a handler's datetime('now') reads.
MaxClock == 2
\* Largest number of connections the chat platform delivers updates on at once.
MaxInFlight == 2
\* Number of stand-alone selections followed in the rotator specification.
MaxSelections == 5
\* Number of failing external calls (transport, download, analysis, file system) in one run.
MaxFaults == 2

Keys == 1..MaxKeys
MsgIds == 1..MaxMsg
Urls == 1..MaxUrls
Handlers == 1..MaxEvents

\* SQL NULL in a column (last_used, url).
NULL == 0

VARIABLES
    connections, \* connections the chat platform delivers updates on (one update each)
    config,      \* GEMINI_API_KEYS: the configured credentials
    api_keys,    \* table api_keys: api_key -> [usage_count, last_used]
    initialKeys, \* the credentials in the table when the first selection is made
    clock,       \* current time in seconds, as datetime('now') reads it
    selCount,    \* number of rows getNextApiKey has updated so far
    lastKey,     \* value returned by the latest getNextApiKey call
    downloads,   \* table downloads: set of rows [message_id, status, url]
    tmpFiles,    \* files present in TMP_DIR, named by message id
    mdFiles,     \* files present in MD_DIR: name -> content
    buttons,     \* callback_data of the re-run buttons delivered to the chat
    faults,      \* number of external calls that have failed so far
    req          \* per invocation of the /webhook handler: position and locals

vars == <<connections, config, api_keys, initialKeys, clock, selCount, lastKey, downloads,
          tmpFiles, mdFiles, buttons, faults, req>>

\* ------------------------------------------------------- credential rotator

\* The value of "last_used IS NULL" (1 or 0), the first ORDER BY term.
IsNullRank(row) == IF row.last_used = NULL THEN 1 ELSE 0

\* ORDER BY last_used IS NULL DESC, last_used DESC, usage_count ASC: the most
\* recently used row first.
OrderByMostRecent(a, b) ==
    \/ IsNullRank(a) > IsNullRank(b)
    \/ /\ IsNullRank(a) = IsNullRank(b)
       /\ a.last_used > b.last_used
    \/ /\ IsNullRank(a) = IsNullRank(b)
       /\ a.last_used = b.last_used
       /\ a.usage_count <= b.usage_count

\* ORDER BY last_used IS NULL ASC, last_used ASC, usage_count ASC: used rows first.
OrderByUsedFirst(a, b) ==
    \/ IsNullRank(a) < IsNullRank(b)
    \/ /\ IsNullRank(a) = IsNullRank(b)
       /\ a.last_used < b.last_used
    \/ /\ IsNullRank(a) = IsNullRank(b)
       /\ a.last_used = b.last_used
       /\ a.usage_count <= b.usage_count

\* row a sorts no later than row b under
\* ORDER BY last_used IS NULL DESC, last_used ASC, usage_count ASC.
OrderByLE(a, b) ==
    \/ IsNullRank(a) > IsNullRank(b)
    \/ /\ IsNullRank(a) = IsNullRank(b)
       /\ a.last_used < b.last_used
    \/ /\ IsNullRank(a) = IsNullRank(b)
       /\ a.last_used = b.last_used
       /\ a.usage_count <= b.usage_count

\* The rows LIMIT 1 may return: the order of rows that compare equal is not defined by SQL.
FirstRows(table) ==
    {k \in DOMAIN table : \A j \in DOMAIN table : OrderByLE(table[k], table[j])}

\* UPDATE api_keys SET last_used = datetime('now') WHERE api_key = k.
UpdateUsageLastUsedOnly(table, k, now) ==
    [table EXCEPT ![k] = [usage_count |-> @.usage_count, last_used |-> now]]

\* UPDATE api_keys SET usage_count = usage_count + 1, with the WHERE clause on
\* the count left out: every row is counted, the selected one is stamped.
UpdateUsageEveryRow(table, k, now) ==
    [j \in DOMAIN table |->
        [usage_count |-> table[j].usage_count + 1,
         last_used |-> IF j = k THEN now ELSE table[j].last_used]]

\* UPDATE api_keys SET usage_count = usage_count + 1, last_used = datetime('now') WHERE api_key = k.
UpdateUsage(table, k, now) ==
    [table EXCEPT ![k] = [usage_count |-> @.usage_count + 1, last_used |-> now]]

\* The times datetime('now') can read at the next call: time is read in whole
\* seconds, so two calls can read the same second.
Now == {clock, clock + 1}

\* getNextApiKey: k is the returned key (NULL for null), now the time it reads.
GetNextApiKey(k, now) ==
    /\ clock' = now
    /\ lastKey' = k
    /\ IF config = {}
       THEN /\ k = NULL
            /\ UNCHANGED <<api_keys, selCount>>
       ELSE IF DOMAIN api_keys = {}
       THEN /\ k = CHOOSE c \in config : \A d \in config : c <= d
            /\ UNCHANGED <<api_keys, selCount>>
       ELSE /\ k \in FirstRows(api_keys)
            /\ api_keys' = UpdateUsage(api_keys, k, now)
            /\ selCount' = selCount + 1

\* INSERT OR REPLACE INTO api_keys (api_key, usage_count, last_used) VALUES (?, 0, NULL), for each configured key.
InitApiKeysReplace(table, cfg) ==
    [k \in (DOMAIN table) \cup cfg |->
        IF k \in cfg THEN [usage_count |-> 0, last_used |-> NULL]
        ELSE table[k]]

\* DELETE FROM api_keys, then INSERT OR IGNORE for each configured key.
InitApiKeysFresh(table, cfg) ==
    [k \in cfg |-> [usage_count |-> 0, last_used |-> NULL]]

\* INSERT OR IGNORE INTO api_keys (api_key, usage_count, last_used) VALUES (?, 0, NULL), for each configured key.
InitApiKeys(table, cfg) ==
    [k \in (DOMAIN table) \cup cfg |->
        IF k \in DOMAIN table THEN table[k]
        ELSE [usage_count |-> 0, last_used |-> NULL]]

\* The credential lists a configuration can hold.
Configs == {1..n : n \in 0..MaxKeys}

EmptyTable == [k \in {} |-> [usage_count |-> 0, last_used |-> NULL]]

\* ----------------------------------------------------------- error messages

\* An error message is the sequence of its characters.
UpperCase == <<"A", "B", "C", "D", "E", "F", "G", "H", "I", "J", "K", "L", "M",
               "N", "O", "P", "Q", "R", "S", "T", "U", "V", "W", "X", "Y", "Z">>
LowerCase == <<"a", "b", "c", "d", "e", "f", "g", "h", "i", "j", "k", "l", "m",
               "n", "o", "p", "q", "r", "s", "t", "u", "v", "w", "x", "y", "z">>

\* String.prototype.toLowerCase, character by character.
ToLowerCase(msg) ==
    [i \in 1..Len(msg) |->
        IF \E j \in 1..Len(UpperCase) : UpperCase[j] = msg[i]
        THEN LowerCase[CHOOSE j \in 1..Len(UpperCase) : UpperCase[j] = msg[i]]
        ELSE msg[i]]

\* String.prototype.includes.
Includes(msg, part) ==
    \E i \in 0..(Len(msg) - Len(part)) :
        \A j \in 1..Len(part) : msg[i + j] = part[j]

\* isQuotaError without its toLowerCase.
IsQuotaErrorCaseSensitive(err) ==
    \/ Includes(err, <<"q", "u", "o", "t", "a">>)
    \/ Includes(err, <<"e", "x", "c", "e", "e", "d">>)
    \/ Includes(err, <<"4", "2", "9">>)
    \/ Includes(err, <<"r", "a", "t", "e">>)

\* isQuotaError: the lower-cased message contains quota, exceed, 429 or rate
\* (an error without a message has the message "").
isQuotaError(err) ==
    LET msg == ToLowerCase(err) IN
    \/ Includes(msg, <<"q", "u", "o", "t", "a">>)
    \/ Includes(msg, <<"e", "x", "c", "e", "e", "d">>)
    \/ Includes(msg, <<"4", "2", "9">>)
    \/ Includes(msg, <<"r", "a", "t", "e">>)

\* Messages of the errors the analysis service raises.
MsgQuota == <<"Q", "u", "o", "t", "a", " ", "h", "i", "t">>
Msg429 == <<"H", "T", "T", "P", " ", "4", "2", "9">>
MsgBlocked == <<"b", "l", "o", "c", "k", "e", "d">>
MsgNone == <<>>
ErrMsgs == {MsgQuota, Msg429, MsgBlocked, MsgNone}
\* Messages of the errors a write to the file system raises (EDQUOT, ENOSPC).
MsgDiskQuota == <<"d", "i", "s", "k", " ", "q", "u", "o", "t", "a">>
MsgNoSpace == <<"n", "o", " ", "s", "p", "a", "c", "e">>
FsErrMsgs == {MsgDiskQuota, MsgNoSpace}

\* let lastError: unknown, before any assignment.
Undefined == <<"undefined">>
\* new Error("Gemini analysis failed: all API keys exhausted")
ErrExhausted == <<"Gemini analysis failed: all API keys exhausted">>
\* new Error("No API key available")
ErrNoApiKey == <<"No API key available">>
\* new Error("GEMINI_API_KEY not configured")
ErrNotConfigured == <<"GEMINI_API_KEY not configured">>
\* ENOENT of fs.promises.readFile on a file that is gone.
ErrNoFile == <<"ENOENT">>

\* const modelsToTry = ["gemini-2.5-flash"]
modelsToTry == <<"gemini-2.5-flash">>

\* ----------------------------------------------------------- downloads table

\* INSERT OR REPLACE INTO downloads: message_id is UNIQUE and idx_downloads_url is a
\* unique index on url, so every row that has the new row's message_id, or its
\* (non-null) url, is deleted before the new row is inserted.
InsertOrReplace(table, row) ==
    {r \in table : /\ r.message_id # row.message_id
                   /\ (row.url = NULL \/ r.url # row.url)} \cup {row}

\* The row of a job, written done already where the code writes downloading.
RowDoneFromTheStart(mid, status, url) ==
    [message_id |-> mid, status |-> IF status = "downloading" THEN "done" ELSE status,
     url |-> url]

Row(mid, status, url) == [message_id |-> mid, status |-> status, url |-> url]

\* SELECT message_id, status FROM downloads WHERE url = ?
RowsByUrl(table, url) == {r \in table : r.url = url /\ url # NULL}

\* existingByUrl?.status === "downloaded" && existingByUrl.message_id
AlreadyProcessedOtherStatus(existingByUrl) ==
    \E e \in existingByUrl : e.status = "downloaded" /\ e.message_id # 0

\* existingByUrl?.status === "done" && existingByUrl.message_id
AlreadyProcessed(existingByUrl) ==
    \E e \in existingByUrl : e.status = "done" /\ e.message_id # 0

\* SELECT url FROM downloads WHERE message_id = ?
RowsByMessageId(table, mid) == {r \in table : r.message_id = mid}

\* ----------------------------------------------------------- inbound events

TARGET_CHAT_ID == 1
OtherChat == 2
Chats == {TARGET_CHAT_ID, OtherChat}

\* A token of a message text: a plain word, or a url followed by `closers`
\* characters of )>] .
Word == [url |-> NULL, closers |-> 0]
UrlToken(u, n) == [url |-> u, closers |-> n]
Texts ==
    {<<>>, <<Word>>}
        \cup {<<Word, UrlToken(u, 0)>> : u \in Urls}
        \cup {<<UrlToken(u, 1), Word>> : u \in Urls}

\* extractFirstUrl: the first token matching https?://\S+, its trailing )>] removed.
extractFirstUrl(text) ==
    IF \E i \in 1..Len(text) : text[i].url # NULL
    THEN LET i == CHOOSE i \in 1..Len(text) :
                    /\ text[i].url # NULL
                    /\ \A j \in 1..(i - 1) : text[j].url = NULL
         IN  text[i].url
    ELSE NULL

\* ------------------------------------------------------ handler invocations

\* The locals of one invocation of app.post("/webhook") before it has received its event.
IdleReq ==
    [pc |-> "idle", path |-> "none", chat |-> NULL, mid |-> NULL, prevId |-> NULL,
     url |-> NULL, canEdit |-> FALSE, interval |-> FALSE, beats |-> 0,
     keyAttempt |-> 0, modelIdx |-> 0, apiKey |-> NULL, lastError |-> Undefined,
     errors |-> <<>>, thrown |-> Undefined, pending |-> FALSE,
     text |-> [analysis |-> NULL, context |-> NULL], tried |-> {}, log |-> <<>>]

\* The invocation has returned (done) or an error has escaped it (crashed).
Finished(r) == r.pc \in {"done", "crashed"}

\* The handler goes on only while no other invocation waits for a download or
\* for the analysis service (external calls that block the process).
PutWhenAlone(h, r) ==
    /\ \A g \in Handlers \ {h} : req[g].pc \notin {"download", "generate"}
    /\ req' = [req EXCEPT ![h] = r]

\* The invocation h continues with the locals r.
Put(h, r) == req' = [req EXCEPT ![h] = r]

Goto(r, pc, entries) == [r EXCEPT !.pc = pc, !.log = @ \o entries]

env == <<connections, config, initialKeys>>
rot == <<api_keys, clock, selCount, lastKey>>
files == <<tmpFiles, mdFiles>>

\* An external call may fail only while the run's budget of failures lasts; the
\* more connections deliver updates, the fewer failures are followed.
MayFail == faults + connections <= MaxFaults
Fault(failed) == faults' = IF failed THEN faults + 1 ELSE faults

\* res.sendStatus(200); return
Ack(r) == Goto(r, "done", <<"ack">>)

\* catch (geminiError) with the failure notice always issued as an edit.
GeminiCatchAlwaysEdits(r) == Goto(r, "editFail", <<"edit:analysisfailed">>)

\* catch (geminiError): the failure notice is an edit of the status message, or a
\* new message when no status message id was obtained. statusInterval is not cleared.
GeminiCatch(r) ==
    IF r.canEdit THEN Goto(r, "editFail", <<"edit:analysisfailed">>)
    ELSE Goto(r, "sendFail", <<"send:analysisfailed">>)

\* catch (e) of the re-run path: edit the status message to "Re-run failed".
RerunCatch(r) == Goto(r, "rrEditFail", <<"edit:rerunfailed">>)

\* An error thrown inside the handler's try block, by path.
Catch(r) == IF r.path = "msg" THEN GeminiCatch(r) ELSE RerunCatch(r)

\* catch (error) of the message path: the row is replaced by a "failed" row
\* without url, and the "Failed to download" notice is sent.
OuterCatchRow(r) == Row(r.mid, "failed", NULL)
OuterCatch(r) ==
    Goto([r EXCEPT !.pending = FALSE], "sendDlFail",
         <<"insert:failed", "send:downloadfailed">>)

\* analyzeVideoWithGemini throws err into its caller.
AnalysisThrows(r, err) ==
    Catch([r EXCEPT !.thrown = err, !.log = Append(@, "analysis:throw")])

Init ==
    /\ connections \in 1..MaxInFlight
    /\ config \in Configs
    /\ api_keys = InitApiKeys(EmptyTable, config)
    /\ initialKeys = config
    /\ clock = 1
    /\ selCount = 0
    /\ lastKey = NULL
    /\ downloads = {}
    /\ tmpFiles = {}
    /\ mdFiles = [n \in {} |-> NULL]
    /\ buttons = {}
    /\ faults = 0
    /\ req = [h \in Handlers |-> IdleReq]

\* Invocations are numbered in the order their events arrive. An update arrives
\* while a connection is free; the more connections, the fewer updates are followed.
NextToArrive(h) ==
    /\ req[h].pc = "idle"
    /\ \A g \in Handlers : g < h => req[g].pc # "idle"
    /\ Cardinality({g \in Handlers : req[g].pc # "idle" /\ ~Finished(req[g])}) < connections
    /\ h + connections <= MaxEvents + 1

\* The ids of the target chat's messages seen so far. The chat numbers its messages
\* upwards, so a message carries the next id, or the id of a message delivered again.
SeenIds == {req[g].mid : g \in {g \in Handlers : req[g].path \in {"msg", "dup", "nolink"}}}
MessageIds == {m \in MsgIds : m <= Cardinality(SeenIds) + 1} \cup {NULL}

\* message?.chat?.id !== TARGET_CHAT_ID
IgnoredOnlyOtherChat(chat, mid) == chat # TARGET_CHAT_ID

\* message?.chat?.id !== TARGET_CHAT_ID || !message?.message_id : the update is
\* not a message of the target chat with a message id.
Ignored(chat, mid) == chat # TARGET_CHAT_ID \/ mid = NULL

\* An update without callback data arrives: lines 546-607, up to the first await.
\* Its message is one of some chat, or it has no message or no chat (chat NULL).
ReceiveMessage(h) ==
    /\ NextToArrive(h)
    /\ \E chat \in Chats \cup {NULL}, mid \in MessageIds, text \in Texts :
        LET url == extractFirstUrl(text)
            existingByUrl == RowsByUrl(downloads, url)
            r == [req[h] EXCEPT !.chat = chat, !.mid = mid, !.url = url, !.path = "msg"]
        IN  IF Ignored(chat, mid)
            THEN Put(h, Ack([r EXCEPT !.path = "none", !.mid = NULL, !.url = NULL]))
            ELSE IF url = NULL
            THEN Put(h, Goto([r EXCEPT !.path = "nolink"], "sendNoLink", <<"send:nolink">>))
            ELSE IF AlreadyProcessed(existingByUrl)
            THEN LET e == CHOOSE e \in existingByUrl : TRUE IN
                 Put(h, Goto([r EXCEPT !.path = "dup", !.prevId = e.message_id],
                             "sendDup", <<"send:dup">>))
            ELSE Put(h, Goto(r, "sendStatus", <<"send:status">>))
    /\ UNCHANGED <<env, rot, downloads, files, buttons, faults>>

\* sendTelegramMessage of the "no link" notice returns (it never throws); then ack.
SendNoLinkDone(h) ==
    /\ req[h].pc = "sendNoLink"
    /\ \E ok \in BOOLEAN :
        /\ ok \/ MayFail
        /\ Fault(~ok)
    /\ Put(h, Ack(req[h]))
    /\ UNCHANGED <<env, rot, downloads, files, buttons>>

\* sendTelegramMessage of the "already processed" notice with the re-run button returns.
SendDupDone(h) ==
    /\ req[h].pc = "sendDup"
    /\ \E ok \in BOOLEAN :
        /\ ok \/ MayFail
        /\ Fault(~ok)
        /\ buttons' = IF ok THEN buttons \cup {<<req[h].prevId, req[h].mid>>} ELSE buttons
    /\ Put(h, Ack(req[h]))
    /\ UNCHANGED <<env, rot, downloads, files>>

\* The initial status send returns: lines 603-615. statusMessageId is the id or
\* null; the row is written at "downloading" and the download is started.
SendStatusDone(h) ==
    /\ req[h].pc = "sendStatus"
    /\ \E ok \in BOOLEAN :
        /\ ok \/ MayFail
        /\ Fault(~ok)
        /\ Put(h, Goto([req[h] EXCEPT !.canEdit = ok], "download",
                       <<"insert:downloading", "download:start">>))
    /\ downloads' = InsertOrReplace(downloads, Row(req[h].mid, "downloading", req[h].url))
    /\ UNCHANGED <<env, rot, files, buttons>>

\* downloadToTmp settles: lines 615-630 and 710-714 (message path), 487-495 and
\* 528-534 (re-run path).
DownloadDone(h) ==
    /\ req[h].pc = "download"
    /\ \E ok \in BOOLEAN :
        LET r == req[h] IN
        /\ ok \/ MayFail
        /\ Fault(~ok)
        /\ IF ok
           THEN /\ tmpFiles' = tmpFiles \cup {r.mid}
                /\ downloads' = InsertOrReplace(downloads, Row(r.mid, "done", r.url))
                /\ Put(h, IF r.path = "msg" /\ r.canEdit
                          THEN Goto(r, "editWaiting",
                                    <<"download:ok", "insert:done", "edit:waiting">>)
                          ELSE Goto(r, "meta", <<"download:ok", "insert:done", "meta">>))
           ELSE /\ tmpFiles' = tmpFiles
                /\ IF r.path = "msg"
                   THEN /\ downloads' = InsertOrReplace(downloads, OuterCatchRow(r))
                        /\ Put(h, OuterCatch(Goto(r, r.pc, <<"download:fail">>)))
                   ELSE /\ downloads' = downloads
                        /\ Put(h, RerunCatch(Goto(r, r.pc, <<"download:fail">>)))
    /\ UNCHANGED <<env, rot, mdFiles, buttons>>

\* The "Waiting for AI analysis" edit settles: lines 624-651. editTelegramMessage
\* awaits fetch without a try, so a transport error is thrown into the inner try.
EditWaitingDone(h) ==
    /\ req[h].pc = "editWaiting"
    /\ \E ok \in BOOLEAN :
        /\ ok \/ MayFail
        /\ Fault(~ok)
        /\ Put(h, IF ok
                  THEN Goto([req[h] EXCEPT !.interval = TRUE], "meta",
                            <<"setInterval", "meta">>)
                  ELSE GeminiCatch(req[h]))
    /\ UNCHANGED <<env, rot, downloads, files, buttons>>

\* The status interval fires: lines 634-645. It fires for as long as it has not
\* been cleared, whatever the handler is waiting for.
Heartbeat(h) ==
    /\ req[h].interval
    /\ req[h].beats < MaxBeats
    /\ Put(h, [req[h] EXCEPT !.beats = @ + 1])
    /\ UNCHANGED <<env, rot, downloads, files, buttons, faults>>

\* -------------------------------------------------------------- analysis step

\* The name of the result file of a message id, and of a merged pair.
MdName(mid) == <<mid>>
CombinedName(prevId, newId) == <<prevId, newId>>

\* fs.promises.writeFile(path, content): creates the file or replaces its content.
WriteFile(dir, name, content) ==
    [n \in (DOMAIN dir) \cup {name} |-> IF n = name THEN content ELSE dir[n]]

\* fs.promises.rename(from, to) of an existing file: `to` is created or replaced.
Rename(dir, from, to) ==
    [n \in ((DOMAIN dir) \ {from}) \cup {to} |-> IF n = to THEN dir[from] ELSE dir[n]]

\* const maxKeyRetries = GEMINI_API_KEYS.length - 1
maxKeyRetriesOneLess == Cardinality(config) - 1

\* const maxKeyRetries = GEMINI_API_KEYS.length
maxKeyRetries == Cardinality(config)

\* The head of the key loop, lines 348-356, and its exit, lines 439-441: select a
\* key and issue the call to the first model, or throw once the attempts are used up.
NextKeyAttempt(h, r) ==
    IF r.keyAttempt < maxKeyRetries
    THEN \E k \in Keys \cup {NULL}, now \in {t \in Now : t <= MaxClock} :
            /\ GetNextApiKey(k, now)
            /\ Put(h, IF k = NULL
                      THEN AnalysisThrows(Goto(r, r.pc, <<"select">>), ErrNoApiKey)
                      ELSE Goto([r EXCEPT !.apiKey = k, !.modelIdx = 1, !.tried = @ \cup {k}],
                                "generate",
                                <<"select", "call">>))
    ELSE /\ Put(h, AnalysisThrows(r, IF r.lastError = Undefined THEN ErrExhausted
                                     ELSE r.lastError))
         /\ UNCHANGED rot

\* catch (err) inside the model loop, lines 421-437: remember the error, rethrow
\* it unless it is a quota error, else go on with the next model or the next key.
AttemptFailed(h, r, err) ==
    LET r1 == [r EXCEPT !.lastError = err, !.errors = Append(@, err)] IN
    IF ~isQuotaError(err)
    THEN Put(h, AnalysisThrows(r1, err)) /\ UNCHANGED rot
    ELSE IF r1.modelIdx < Len(modelsToTry)
    THEN Put(h, Goto([r1 EXCEPT !.modelIdx = @ + 1], "generate", <<"call">>))
         /\ UNCHANGED rot
    ELSE NextKeyAttempt(h, [r1 EXCEPT !.keyAttempt = @ + 1])

\* if (GEMINI_API_KEYS.length === 0), with the condition left out
NotConfiguredNever == FALSE

\* if (GEMINI_API_KEYS.length === 0)
NotConfigured == config = {}

\* getVideoTextMetadata returns (it catches its own errors) and
\* analyzeVideoWithGemini is entered: lines 335-341.
MetaDone(h) ==
    /\ req[h].pc = "meta"
    /\ Put(h, IF NotConfigured
              THEN AnalysisThrows(Goto(req[h], "meta", <<"analysis:start">>),
                                  ErrNotConfigured)
              ELSE Goto(req[h], "readFile", <<"analysis:start">>))
    /\ UNCHANGED <<env, rot, downloads, files, buttons, faults>>

\* fs.promises.readFile(videoPath) settles: it throws when the file is gone.
ReadFileDone(h) ==
    /\ req[h].pc = "readFile"
    /\ IF req[h].mid \in tmpFiles
       THEN NextKeyAttempt(h, Goto([req[h] EXCEPT !.keyAttempt = 0, !.tried = {}],
                                  "readFile", <<"read:ok">>))
       ELSE Put(h, AnalysisThrows(Goto(req[h], "readFile", <<"read:error">>), ErrNoFile))
            /\ UNCHANGED rot
    /\ UNCHANGED <<env, downloads, files, buttons, faults>>

\* model.generateContent settles: with a result, lines 392-397, or with an error.
GenerateDone(h) ==
    /\ req[h].pc = "generate"
    /\ \/ /\ Put(h, Goto(req[h], "persist", <<"call:ok">>))
          /\ UNCHANGED <<rot, faults>>
       \/ /\ MayFail
          /\ Fault(TRUE)
          /\ \E err \in ErrMsgs : AttemptFailed(h, Goto(req[h], "generate", <<"call:error">>), err)
    /\ UNCHANGED <<env, downloads, files, buttons>>

\* finalText, lines 667-681: the response, followed by a "Source Context" section
\* with the url when there is a url (context is NULL when no section is appended).
FinalText(geminiResponse, url) ==
    [analysis |-> geminiResponse, context |-> IF url # NULL THEN url ELSE NULL]

\* The text of the final edit of the re-run path, line 527: the response alone.
RerunText(geminiResponse) == [analysis |-> geminiResponse, context |-> NULL]

\* What the handler does with the text analyzeVideoWithGemini returns: lines
\* 665-686 (clear the interval, issue the final edit or send) and lines 509-525
\* (rename the new result file to the combined name if it exists, unlink the video).
\* The response of the service to invocation h is the text h.
AnalysisReturns(h, r) ==
    IF r.path = "msg"
    THEN LET r1 == [r EXCEPT !.interval = FALSE, !.text = FinalText(h, r.url)] IN
         IF r.canEdit
         THEN Goto(r1, "editFinal", <<"analysis:return", "clearInterval", "edit:final">>)
         ELSE Goto(r1, "sendFinal", <<"analysis:return", "clearInterval", "send:final">>)
    ELSE Goto([r EXCEPT !.text = RerunText(h)], "unlink",
              <<"analysis:return", "rename", "unlink">>)

\* The writes of the result file (and its metadata file) settle: lines 395-420.
\* An error here is caught by the same catch as an error of the service call.
PersistDone(h) ==
    /\ req[h].pc = "persist"
    /\ LET r == req[h]
           written == WriteFile(mdFiles, MdName(r.mid), h)
       IN
       \/ /\ Put(h, AnalysisReturns(h, Goto(r, "persist", <<"write:ok">>)))
          /\ \/ /\ r.path = "rerun"
                /\ mdFiles' = Rename(written, MdName(r.mid), CombinedName(r.prevId, r.mid))
                /\ UNCHANGED faults
             \/ /\ r.path = "rerun"
                /\ MayFail
                /\ Fault(TRUE)
                /\ mdFiles' = written
             \/ /\ r.path = "msg"
                /\ mdFiles' = written
                /\ UNCHANGED faults
          /\ UNCHANGED rot
       \/ /\ MayFail
          /\ Fault(TRUE)
          /\ \E wrote \in BOOLEAN : mdFiles' = IF wrote THEN written ELSE mdFiles
          /\ \E err \in FsErrMsgs : AttemptFailed(h, Goto(r, "persist", <<"write:error">>), err)
    /\ UNCHANGED <<env, downloads, tmpFiles, buttons>>

\* The final edit settles: lines 683 and 687 (message path), 527-535 (re-run path).
EditFinalDone(h) ==
    /\ req[h].pc = "editFinal"
    /\ \E ok \in BOOLEAN :
        LET r == req[h] IN
        /\ ok \/ MayFail
        /\ Fault(~ok)
        /\ Put(h, IF ~ok THEN Catch(r)
                  ELSE IF r.path = "msg" THEN Goto(r, "unlink", <<"unlink">>)
                  ELSE Ack(r))
    /\ UNCHANGED <<env, rot, downloads, files, buttons>>

\* The final send (no status message to edit) returns: line 685, then finally.
SendFinalDone(h) ==
    /\ req[h].pc = "sendFinal"
    /\ \E ok \in BOOLEAN :
        /\ ok \/ MayFail
        /\ Fault(~ok)
    /\ Put(h, Goto(req[h], "unlink", <<"unlink">>))
    /\ UNCHANGED <<env, rot, downloads, files, buttons>>

\* The failure edit of catch (geminiError) settles: lines 689-701. When it
\* throws, the finally block runs and the error goes on to the outer catch.
EditFailDone(h) ==
    /\ req[h].pc = "editFail"
    /\ \E ok \in BOOLEAN :
        /\ ok \/ MayFail
        /\ Fault(~ok)
        /\ Put(h, Goto([req[h] EXCEPT !.pending = ~ok], "unlink", <<"unlink">>))
    /\ UNCHANGED <<env, rot, downloads, files, buttons>>

\* The failure send of catch (geminiError) returns: lines 696-701.
SendFailDone(h) ==
    /\ req[h].pc = "sendFail"
    /\ \E ok \in BOOLEAN :
        /\ ok \/ MayFail
        /\ Fault(~ok)
    /\ Put(h, Goto(req[h], "unlink", <<"unlink">>))
    /\ UNCHANGED <<env, rot, downloads, files, buttons>>

\* fs.promises.unlink(savedPath) settles; its error is caught. Lines 701-730
\* (message path: then the outer catch if an error is on its way, else the
\* acknowledgement) and 522-527 (re-run path: then the final edit).
UnlinkDone(h) ==
    /\ req[h].pc = "unlink"
    /\ \E ok \in BOOLEAN :
        LET r == Goto(req[h], "unlink", <<IF ok THEN "unlink:ok" ELSE "unlink:error">>) IN
        /\ ok \/ MayFail
        /\ Fault(~ok)
        /\ tmpFiles' = IF ok THEN tmpFiles \ {r.mid} ELSE tmpFiles
        /\ IF r.path = "rerun"
           THEN Put(h, Goto(r, "editFinal", <<"edit:final">>)) /\ UNCHANGED downloads
           ELSE IF r.pending
           THEN /\ Put(h, OuterCatch(r))
                /\ downloads' = InsertOrReplace(downloads, OuterCatchRow(r))
           ELSE Put(h, Ack(r)) /\ UNCHANGED downloads
    /\ UNCHANGED <<env, rot, mdFiles, buttons>>

\* The "Failed to download" send returns: lines 715-730.
SendDlFailDone(h) ==
    /\ req[h].pc = "sendDlFail"
    /\ \E ok \in BOOLEAN :
        /\ ok \/ MayFail
        /\ Fault(~ok)
    /\ Put(h, Ack(req[h]))
    /\ UNCHANGED <<env, rot, downloads, files, buttons>>

\* ---------------------------------------------------------------- callbacks

\* Buttons that name a message id the downloads table holds no url for (the row
\* was replaced, or the table is a newer one than the button).
StaleButtons ==
    {b \in MsgIds \X MsgIds :
        \A e \in RowsByMessageId(downloads, b[1]) : e.url = NULL}

\* A callback update arrives: lines 449-474 and 536-541, up to the first await.
\* Its data is that of a re-run button, or something else. The re-run branch reads
\* the chat of the message the callback names (callback_query.message?.chat?.id ??
\* TARGET_CHAT_ID) and compares it with nothing.
ReceiveCallback(h) ==
    /\ NextToArrive(h)
    /\ \/ Put(h, Goto([req[h] EXCEPT !.path = "callback", !.chat = TARGET_CHAT_ID],
                      "answer", <<"answer">>))
       \/ \E b \in buttons \cup StaleButtons, chat \in Chats :
            LET prevId == b[1]
                newId == b[2]
                row == RowsByMessageId(downloads, prevId)
                url == IF row = {} THEN NULL ELSE (CHOOSE e \in row : TRUE).url
                r == [req[h] EXCEPT !.chat = TARGET_CHAT_ID, !.prevId = prevId,
                                    !.mid = newId, !.url = url]
            IN  IF url = NULL
                THEN Put(h, Goto([r EXCEPT !.path = "nourl"], "answer", <<"answer:nourl">>))
                ELSE Put(h, Goto([r EXCEPT !.path = "rerun", !.canEdit = TRUE,
                                           !.chat = chat],
                                 "answerRerun", <<"answer:rerunning">>))
    /\ UNCHANGED <<env, rot, downloads, files, buttons, faults>>

\* answerCallbackQuery settles outside any try: lines 465-470 and 537-543.
AnswerDone(h) ==
    /\ req[h].pc = "answer"
    /\ \E ok \in BOOLEAN :
        /\ ok \/ MayFail
        /\ Fault(~ok)
        /\ Put(h, IF ok THEN Ack(req[h]) ELSE Goto(req[h], "crashed", <<"throw">>))
    /\ UNCHANGED <<env, rot, downloads, files, buttons>>

\* answerCallbackQuery("Re-running analysis...") settles: lines 474-480.
AnswerRerunDone(h) ==
    /\ req[h].pc = "answerRerun"
    /\ \E ok \in BOOLEAN :
        /\ ok \/ MayFail
        /\ Fault(~ok)
        /\ Put(h, IF ok THEN Goto(req[h], "rrEditStart", <<"edit:rerunning">>)
                  ELSE Goto(req[h], "crashed", <<"throw">>))
    /\ UNCHANGED <<env, rot, downloads, files, buttons>>

\* The "Re-running analysis" edit settles: lines 476-487.
RrEditStartDone(h) ==
    /\ req[h].pc = "rrEditStart"
    /\ \E ok \in BOOLEAN :
        LET r == req[h] IN
        /\ ok \/ MayFail
        /\ Fault(~ok)
        /\ IF ok
           THEN /\ downloads' = InsertOrReplace(downloads, Row(r.mid, "downloading", r.url))
                /\ Put(h, Goto(r, "download", <<"insert:downloading", "download:start">>))
           ELSE /\ downloads' = downloads
                /\ Put(h, RerunCatch(r))
    /\ UNCHANGED <<env, rot, files, buttons>>

\* The "Re-run failed" edit settles: lines 528-543. It is awaited inside the
\* catch block, so its error escapes the handler.
RrEditFailDone(h) ==
    /\ req[h].pc = "rrEditFail"
    /\ \E ok \in BOOLEAN :
        /\ ok \/ MayFail
        /\ Fault(~ok)
        /\ Put(h, IF ok THEN Ack(req[h]) ELSE Goto(req[h], "crashed", <<"throw">>))
    /\ UNCHANGED <<env, rot, downloads, files, buttons>>

\* ------------------------------------------------------------ specifications

Next ==
    \E h \in Handlers :
        \/ ReceiveMessage(h)
        \/ ReceiveCallback(h)
        \/ SendNoLinkDone(h)
        \/ SendDupDone(h)
        \/ SendStatusDone(h)
        \/ DownloadDone(h)
        \/ EditWaitingDone(h)
        \/ Heartbeat(h)
        \/ MetaDone(h)
        \/ ReadFileDone(h)
        \/ GenerateDone(h)
        \/ PersistDone(h)
        \/ EditFinalDone(h)
        \/ SendFinalDone(h)
        \/ EditFailDone(h)
        \/ SendFailDone(h)
        \/ UnlinkDone(h)
        \/ SendDlFailDone(h)
        \/ AnswerDone(h)
        \/ AnswerRerunDone(h)
        \/ RrEditStartDone(h)
        \/ RrEditFailDone(h)

Spec == Init /\ [][Next]_vars

\* A call of getNextApiKey on its own: lines 309-328.
Rotate ==
    /\ selCount < MaxSelections
    /\ \E k \in Keys \cup {NULL}, now \in {t \in Now : t <= MaxSelections + 1} :
        GetNextApiKey(k, now)
    /\ UNCHANGED <<env, downloads, files, buttons, faults, req>>

\* The process is started again with a credential list cfg: lines 117-129 run on
\* the table the earlier runs left.
Restart(cfg) ==
    /\ config' = cfg
    /\ api_keys' = InitApiKeys(api_keys, cfg)
    /\ initialKeys' = IF selCount = 0 THEN DOMAIN api_keys' ELSE initialKeys
    /\ UNCHANGED <<connections, clock, selCount, lastKey, downloads, files,
                   buttons, faults, req>>

\* The service call made with the selected key settles with an error: lines
\* 421-422 record it in lastError (a call that returns a result records nothing).
Settle ==
    /\ lastKey # NULL
    /\ \E err \in ErrMsgs : req' = [req EXCEPT ![1].lastError = err]
    /\ UNCHANGED <<env, rot, downloads, files, buttons, faults>>

NextRotator == Rotate \/ Settle \/ \E cfg \in Configs : Restart(cfg)

SpecRotator == Init /\ [][NextRotator]_vars

\* ------------------------------------------------------------------- claims

Abs(n) == IF n < 0 THEN -n ELSE n

UsedKeys == {k \in DOMAIN api_keys : api_keys[k].last_used # NULL}

\* No two used credentials have the same last_used.
NoTies ==
    \A a, b \in UsedKeys : a # b => api_keys[a].last_used # api_keys[b].last_used

UsageWithinOne ==
    \A a, b \in DOMAIN api_keys :
        Abs(api_keys[a].usage_count - api_keys[b].usage_count) <= 1

\* C7 as stated: after K selections, K >= the number of credentials, and with no
\* ties in last_used, the usage_count of any two credentials differs by at most 1.
C7_FairAsStated ==
    (selCount >= Cardinality(DOMAIN api_keys) /\ NoTies) => UsageWithinOne

\* C7, amended: the same, for a table that holds the credentials it held at the
\* first selection (no credential was added since by a start with a longer list).
C7_FairUnchangedTable ==
    (/\ DOMAIN api_keys = initialKeys
     /\ selCount >= Cardinality(DOMAIN api_keys)
     /\ NoTies) => UsageWithinOne

\* Two credentials of an unchanged table, never tied, after more selections than
\* credentials: their counts differ by exactly one.
C7_Witness ==
    /\ DOMAIN api_keys = initialKeys
    /\ Cardinality(DOMAIN api_keys) >= 2
    /\ selCount > Cardinality(DOMAIN api_keys)
    /\ NoTies
    /\ \E a, b \in DOMAIN api_keys :
        api_keys[a].usage_count = api_keys[b].usage_count + 1

\* C8: the credential a selection returns is the smallest in the order: it is
\* unused if any credential is unused; otherwise no credential has an older
\* last_used; and no credential with the same last_used has a smaller usage_count.
C8_SelectsSmallest ==
    [][selCount' = selCount + 1 =>
        LET k == lastKey' IN
        /\ k \in DOMAIN api_keys
        /\ (\E j \in DOMAIN api_keys : api_keys[j].last_used = NULL)
              => api_keys[k].last_used = NULL
        /\ \A j \in DOMAIN api_keys :
              /\ api_keys[k].last_used <= api_keys[j].last_used
                    \/ api_keys[k].last_used = NULL
              /\ api_keys[j].last_used = api_keys[k].last_used
                    => api_keys[k].usage_count <= api_keys[j].usage_count
    ]_vars

\* A selection has passed over a more often used credential with the same
\* last_used, and another has passed over a more recently used one.
C8_Witness ==
    /\ selCount >= 3
    /\ lastKey \in UsedKeys
    /\ \E j \in UsedKeys :
        /\ j # lastKey
        /\ api_keys[j].last_used < api_keys[lastKey].last_used
        /\ api_keys[j].usage_count = api_keys[lastKey].usage_count

\* ---- the orchestrator's claims, stated on the operations each invocation has issued

Has(log, entry) == \E i \in DOMAIN log : log[i] = entry
Count(log, entries) == Cardinality({i \in DOMAIN log : log[i] \in entries})
Added(h) == SubSeq(req'[h].log, Len(req[h].log) + 1, Len(req'[h].log))

\* Invocation h receives a message of the target chat that has an id and a url.
ArrivesWithUrl(h) ==
    /\ req[h].pc = "idle"
    /\ req'[h].pc # "idle"
    /\ req'[h].path \in {"none", "nolink", "msg", "dup"}
    /\ req'[h].chat = TARGET_CHAT_ID
    /\ req'[h].mid # NULL
    /\ req'[h].url # NULL

\* C1: a message of the target chat whose url has a row with status done is
\* answered with the "already processed" notice and its re-run button; the
\* invocation starts no download, makes no selection and no service call, and
\* no row of the downloads table is created or changed by it.
C1_DuplicateGetsRerun ==
    [][\A h \in Handlers :
        /\ (ArrivesWithUrl(h)
              /\ \E e \in downloads : e.url = req'[h].url /\ e.status = "done")
            => /\ req'[h].pc = "sendDup"
               /\ req'[h].log = <<"send:dup">>
               /\ \E e \in downloads : e.url = req'[h].url /\ e.message_id = req'[h].prevId
        /\ (req'[h].pc = "sendDup" \/ req[h].pc = "sendDup")
            => /\ req'[h].log \in {<<"send:dup">>, <<"send:dup", "ack">>}
               /\ (req'[h] # req[h] => <<downloads, api_keys, tmpFiles, mdFiles>>' =
                                        <<downloads, api_keys, tmpFiles, mdFiles>>)
    ]_vars

\* A duplicate has been answered and acknowledged, and its button delivered.
C1_Witness ==
    \E h \in Handlers :
        /\ req[h].path = "dup"
        /\ req[h].pc = "done"
        /\ <<req[h].prevId, req[h].mid>> \in buttons

TerminalEdits == {"edit:final", "edit:analysisfailed"}

\* C2: no heartbeat edit of a status message is issued after the terminal edit
\* (final result or failure notice) of that message.
C2_NoHeartbeatAfterTerminalEdit ==
    [][\A h \in Handlers :
        req'[h].beats > req[h].beats => Count(req[h].log, TerminalEdits) = 0]_vars

\* C3: the status found by a message id, and the status found by a url, never
\* leaves done or failed for another value.
C3_StatusNeverLeavesDoneOrFailed ==
    [][\A e \in downloads : \A f \in downloads' :
        (/\ e.status \in {"done", "failed"}
         /\ \/ f.message_id = e.message_id
            \/ (e.url # NULL /\ f.url = e.url))
        => f.status = e.status]_vars

\* The messages above that contain quota, exceed, 429 or rate in some case.
QuotaMessages == {MsgQuota, Msg429, MsgDiskQuota}

\* C4: a run of the analysis step that reaches the key loop and in which every
\* service call fails with a quota error makes exactly N selections and N x M
\* service calls, and throws the last error it saw (the "all keys exhausted"
\* error if it saw none).
C4_QuotaExhaustion ==
    \A h \in Handlers :
        LET r == req[h] IN
        (/\ Has(r.log, "read:ok")
         /\ Has(r.log, "analysis:throw")
         /\ ~Has(r.log, "call:ok")
         /\ \A i \in DOMAIN r.errors : r.errors[i] \in QuotaMessages)
        => /\ Count(r.log, {"select"}) = Cardinality(config)
           /\ Count(r.log, {"call"}) = Cardinality(config) * Len(modelsToTry)
           /\ r.thrown = IF r.errors = <<>> THEN ErrExhausted
                         ELSE r.errors[Len(r.errors)]

\* A run over two credentials has ended after two different quota errors.
C4_Witness ==
    \E h \in Handlers :
        /\ req[h].errors = <<MsgQuota, Msg429>>
        /\ req[h].thrown = Msg429
        /\ Cardinality(config) = 2
        /\ Finished(req[h])

\* C5: when an attempt of a run fails, an error whose message matches none of
\* quota, exceed, 429, rate ends the run at once with that error, with no further
\* selection or service call; an error that matches is followed by the call to the
\* next model, or by the selection of the next key and a call, or, when both are
\* used up, by the end of the run.
C5_AbortOnlyOnNonQuota ==
    [][\A h \in Handlers :
        Len(req'[h].errors) = Len(req[h].errors) + 1 =>
            LET err == req'[h].errors[Len(req'[h].errors)]
                added == Added(h)
            IN  IF err \notin QuotaMessages
                THEN /\ req'[h].thrown = err
                     /\ Count(added, {"select", "call"}) = 0
                     /\ api_keys' = api_keys
                     /\ req'[h].pc \in {"editFail", "sendFail", "rrEditFail"}
                ELSE IF req[h].modelIdx < Len(modelsToTry)
                THEN /\ req'[h].thrown = Undefined
                     /\ Count(added, {"call"}) = 1
                     /\ api_keys' = api_keys
                ELSE IF req[h].keyAttempt + 1 < Cardinality(config)
                THEN /\ req'[h].thrown = Undefined
                     /\ Count(added, {"select"}) = 1
                     /\ Count(added, {"call"}) = 1
                     /\ selCount' = selCount + 1
                ELSE req'[h].thrown = err
    ]_vars

\* A run was ended by a non-quota error at its second attempt.
C5_Witness ==
    \E h \in Handlers :
        /\ Len(req[h].errors) = 2
        /\ req[h].errors[1] \in QuotaMessages
        /\ req[h].errors[2] = MsgBlocked
        /\ req[h].thrown = MsgBlocked

\* C6: once a service call of a run has returned a result, the run makes no
\* further selection and no further service call.
C6_StopsOnFirstResult ==
    \A h \in Handlers :
        \A i, j \in DOMAIN req[h].log :
            (req[h].log[i] = "call:ok" /\ i < j) => req[h].log[j] \notin {"select", "call"}

\* C9: the acknowledgement of an event that starts a job is sent before its
\* download starts.
C9_AckBeforeDownload ==
    \A h \in Handlers : Has(req[h].log, "download:start") => Has(req[h].log, "ack")

FailureNotices ==
    {"edit:analysisfailed", "send:analysisfailed", "edit:rerunfailed", "send:downloadfailed"}

\* C10: an invocation whose download or analysis failed has issued exactly one
\* failure notice when it ends.
C10_OneFailureNotice ==
    \A h \in Handlers :
        (/\ Finished(req[h])
         /\ Has(req[h].log, "download:fail") \/ Has(req[h].log, "analysis:throw"))
        => Count(req[h].log, FailureNotices) = 1

\* The invocations that work on the temporary file of message id mid.
JobsOf(mid) == {g \in Handlers : req[g].mid = mid /\ Has(req[g].log, "insert:downloading")}

\* C11: when every invocation that created a row for a message id has finished
\* and no deletion of that id's temporary file has failed, no temporary file of
\* that message id remains.
C11_NoTmpFileLeft ==
    \A h \in Handlers :
        (/\ Has(req[h].log, "insert:downloading")
         /\ \A g \in JobsOf(req[h].mid) :
               Finished(req[g]) /\ ~Has(req[g].log, "unlink:error"))
        => req[h].mid \notin tmpFiles

\* Invocation h ends in this step (it acknowledges its event, or an error escapes it).
Finishes(h) == ~Finished(req[h]) /\ Finished(req'[h])

\* The job of a message went well: a status message was obtained, the download
\* succeeded and the analysis returned a result on the first credential.
WentWell(r) ==
    /\ r.path = "msg"
    /\ r.canEdit
    /\ Has(r.log, "download:ok")
    /\ Has(r.log, "analysis:return")
    /\ r.keyAttempt = 0
    /\ r.errors = <<>>

\* C12: when the job of a message went well, the invocation ends having issued
\* exactly one final edit, whose text is the analysis text followed by the
\* Source Context section with the url, and the row of that url has status done.
C12_SuccessfulJob ==
    [][\A h \in Handlers :
        (Finishes(h) /\ WentWell(req'[h]))
        => /\ Count(req'[h].log, {"edit:final"}) = 1
           /\ req'[h].text = [analysis |-> h, context |-> req'[h].url]
           /\ \E e \in downloads' : e.url = req'[h].url
           /\ \A e \in downloads' : e.url = req'[h].url => e.status = "done"
    ]_vars

\* C13: an invocation that received a re-run callback naming a message id
\* without a stored url answers it with "No URL found", acknowledges the event
\* and does nothing else: its steps leave the downloads table, the credentials'
\* usage and the files alone, and it issues nothing but the answer and the
\* acknowledgement.
C13_NoUrlCallbackOnlyAnswers ==
    [][\A h \in Handlers :
        (req'[h].path = "nourl" /\ req'[h] # req[h])
        => /\ <<downloads, api_keys, tmpFiles, mdFiles>>' =
                <<downloads, api_keys, tmpFiles, mdFiles>>
           /\ IF Finished(req'[h])
              THEN req'[h].log = <<"answer:nourl", "ack">>
              ELSE req'[h].log = <<"answer:nourl">>
    ]_vars

\* A job with a status message whose download succeeded and whose analysis ran
\* through every credential, each service call failing with a quota error.
AllQuotaFailed(r) ==
    /\ r.canEdit
    /\ Has(r.log, "download:ok")
    /\ Has(r.log, "analysis:throw")
    /\ ~Has(r.log, "call:ok")
    /\ Len(r.errors) = Cardinality(config) * Len(modelsToTry)
    /\ Len(r.errors) > 0
    /\ \A i \in DOMAIN r.errors : r.errors[i] \in QuotaMessages

\* C14: a job whose download succeeded and whose every credential failed with a
\* quota error ends having issued a failure edit of the status message, with the
\* row of its message id at done and no result file written by it.
C14_QuotaExhaustedJob ==
    [][\A h \in Handlers :
        (Finishes(h) /\ AllQuotaFailed(req'[h]))
        => /\ Count(req'[h].log, {"edit:analysisfailed", "edit:rerunfailed"}) = 1
           /\ \E e \in downloads' : e.message_id = req'[h].mid /\ e.status = "done"
           /\ \A n \in DOMAIN mdFiles' : mdFiles'[n] # h
    ]_vars

\* A run of the analysis step in which some credential returned a result and
\* every failure before it was a quota error of the service.
SucceededAfterQuota(r) ==
    /\ Has(r.log, "analysis:return")
    /\ Len(r.errors) > 0
    /\ \A i \in DOMAIN r.errors : r.errors[i] \in {MsgQuota, Msg429}

\* C15: a job whose analysis returned a result after quota errors of earlier
\* credentials ends having issued the final result and no failure notice.
C15_QuotaFailuresInvisible ==
    \A h \in Handlers :
        (Finished(req[h]) /\ SucceededAfterQuota(req[h]))
        => /\ Count(req[h].log, {"edit:final", "send:final"}) = 1
           /\ Count(req[h].log, FailureNotices) = 0

\* C16: a row of the downloads table is never deleted: a message id that has a
\* row has a row after every step (so that after a re-run 'rerun:P:N' both P and
\* N have a row, and a later callback naming P finds its row).
C16_RowsNeverDeleted ==
    [][\A e \in downloads : \E f \in downloads' : f.message_id = e.message_id]_vars

\* C17: the downloads table holds exactly one row for the url of every job that
\* was created and exactly one row for its message id.
C17_OneRowPerUrlAndMessageId ==
    \A h \in Handlers :
        Has(req[h].log, "insert:downloading")
        => /\ Cardinality(RowsByUrl(downloads, req[h].url)) = 1
           /\ Cardinality(RowsByMessageId(downloads, req[h].mid)) = 1

\* C18: every row of the downloads table, whatever its status, carries a url
\* (it is found by its url as well as by its message id).
C18_EveryRowHasUrl ==
    \A e \in downloads :
        /\ e.url # NULL
        /\ e \in RowsByUrl(downloads, e.url)
        /\ e \in RowsByMessageId(downloads, e.message_id)

\* C19: a failing send or edit of the status message does not abort the job: an
\* invocation that got as far as the "Re-running" edit has started its download,
\* one whose download succeeded has entered the analysis, and it has not written
\* a failed row after a successful download.
C19_StatusFailureNeverAborts ==
    [][\A h \in Handlers :
        Finishes(h) =>
            LET log == req'[h].log IN
            /\ Has(log, "edit:rerunning") => Has(log, "download:start")
            /\ Has(log, "download:ok")
                  => Has(log, "analysis:start") /\ ~Has(log, "insert:failed")
    ]_vars

\* C20: no error escapes the handler: every invocation that ends has
\* acknowledged its event (an invocation an error escapes from never does).
C20_NoErrorEscapes ==
    \A h \in Handlers :
        Finished(req[h])
        => /\ req[h].pc = "done"
           /\ req[h].log[Len(req[h].log)] = "ack"

\* C21: a job whose download failed has set its row to failed when it ends, has
\* started its download once only, has not entered the analysis step and has
\* written no result file.
C21_FailedDownloadFailsJob ==
    \A h \in Handlers :
        (Finished(req[h]) /\ Has(req[h].log, "download:fail"))
        => /\ Has(req[h].log, "insert:failed")
           /\ Count(req[h].log, {"download:start"}) = 1
           /\ ~Has(req[h].log, "analysis:start")
           /\ \A n \in DOMAIN mdFiles : mdFiles[n] # h

\* The position of the first occurrence of entry in log (0 if there is none).
First(log, entry) ==
    IF Has(log, entry) THEN CHOOSE i \in DOMAIN log :
                                /\ log[i] = entry
                                /\ \A j \in 1..(i - 1) : log[j] # entry
    ELSE 0

\* The entries of steps occur in log once each, in the order of steps.
InOrder(log, steps) ==
    /\ \A i \in DOMAIN steps : Count(log, {steps[i]}) = 1
    /\ \A i \in 1..(Len(steps) - 1) : First(log, steps[i]) < First(log, steps[i + 1])

\* The steps of a re-run, in the order of lines 474-527.
RerunSteps ==
    <<"answer:rerunning", "edit:rerunning", "insert:downloading", "download:start",
      "download:ok", "insert:done", "analysis:start", "analysis:return", "rename",
      "unlink", "edit:final">>

\* C22: a re-run writes the row of N at downloading with the prior url, then at
\* done after the download; a re-run that has ended has either gone through its
\* steps in order (answer, "re-running" edit, row, download, row done, analysis,
\* merge, deletion of the temporary file, final edit) or has issued the
\* failure notice.
C22_RerunOrder ==
    [][\A h \in Handlers :
        (req'[h].path = "rerun" /\ req'[h] # req[h])
        => LET r == req'[h] IN
           /\ Has(Added(h), "insert:downloading")
                 => Row(r.mid, "downloading", r.url) \in downloads' /\ r.url # NULL
           /\ Has(Added(h), "insert:done") => Row(r.mid, "done", r.url) \in downloads'
           /\ Finished(r) =>
                 IF Has(r.log, "analysis:return")
                 THEN InOrder(r.log, RerunSteps)
                 ELSE Has(r.log, "edit:rerunfailed")
    ]_vars

\* C23: a step of a re-run 'rerun:P:N' leaves the result file of P that an
\* earlier job wrote in place with its content; a re-run whose merge succeeded has stored its result under the
\* combined name P-N; and a re-run whose analysis returned goes on to its final
\* edit whether the merge succeeded or not.
C23_RerunKeepsOriginal ==
    [][\A h \in Handlers :
        (req'[h].path = "rerun" /\ req'[h] # req[h])
        => LET r == req'[h]
               old == MdName(r.prevId)
               new == CombinedName(r.prevId, r.mid)
           IN
           /\ (old \in DOMAIN mdFiles /\ mdFiles[old] # h)
                 => old \in DOMAIN mdFiles' /\ mdFiles'[old] = mdFiles[old]
           /\ (Has(Added(h), "rename") /\ faults' = faults)
                 => new \in DOMAIN mdFiles' /\ mdFiles'[new] = h
           /\ (Finished(r) /\ Has(r.log, "analysis:return")) => Has(r.log, "edit:final")
    ]_vars

Edits == {"edit:waiting", "edit:final", "edit:analysisfailed", "edit:rerunning",
          "edit:rerunfailed"}

\* C24: a job of a message whose initial status send returned no message id
\* issues no edit and starts no heartbeat; when it has ended, its result, or its
\* failure notice, has been sent as a new message.
C24_NoStatusMessageNoEdit ==
    \A h \in Handlers :
        LET r == req[h] IN
        (r.path = "msg" /\ Has(r.log, "insert:downloading") /\ ~r.canEdit)
        => /\ Count(r.log, Edits) = 0
           /\ ~Has(r.log, "setInterval")
           /\ ~r.interval
           /\ r.beats = 0
           /\ (Finished(r) /\ Has(r.log, "analysis:return")) => Has(r.log, "send:final")
           /\ (Finished(r) /\ Has(r.log, "analysis:throw"))
                 => Has(r.log, "send:analysisfailed")
           /\ (Finished(r) /\ Has(r.log, "download:fail"))
                 => Has(r.log, "send:downloadfailed")

\* A job without a status message has ended after its analysis failed, its
\* notice sent as a new message.
C24_Witness ==
    \E h \in Handlers :
        /\ req[h].path = "msg"
        /\ ~req[h].canEdit
        /\ req[h].pc = "done"
        /\ Has(req[h].log, "analysis:throw")
        /\ Has(req[h].log, "send:analysisfailed")

\* Invocation h receives an update that is not a message of the target chat
\* with a message id: a message of another chat, a message without id, or an
\* update without message (an unrecognised shape).
ArrivesIgnored(h) ==
    /\ req[h].pc = "idle"
    /\ req'[h].pc # "idle"
    /\ req'[h].path \in {"none", "nolink", "msg", "dup"}
    /\ req'[h].chat # TARGET_CHAT_ID \/ req'[h].mid = NULL

\* C25: such an update is acknowledged in the step that receives it and nothing
\* else is done: no row, credential, file or button changes, no message is sent
\* or edited, and no failure is possible.
C25_IgnoredIsNoOp ==
    [][\A h \in Handlers :
        ArrivesIgnored(h)
        => /\ req'[h].pc = "done"
           /\ req'[h].log = <<"ack">>
           /\ <<downloads, api_keys, tmpFiles, mdFiles, buttons, faults>>' =
                <<downloads, api_keys, tmpFiles, mdFiles, buttons, faults>>
    ]_vars

\* Three updates were ignored: one of another chat, one of the target chat
\* without a message id, one without a message.
C25_Witness ==
    \E f, g, h \in Handlers :
        /\ req[f].log = <<"ack">> /\ req[f].chat = OtherChat
        /\ req[g].log = <<"ack">> /\ req[g].chat = TARGET_CHAT_ID
        /\ req[h].log = <<"ack">> /\ req[h].chat = NULL

\* The invocations that take part in a step.
Movers == {h \in Handlers : req'[h] # req[h]}

\* C26: a selection is one step: the step that reads the preferred key of the
\* table is the step that increments that key's usage_count and sets its
\* last_used, it is taken by one invocation for one selection, and the table
\* changes in no other step; so every selection is decided on a table that the
\* selection before it has already updated.
C26_SelectionAtomic ==
    [][/\ api_keys' # api_keys => selCount' = selCount + 1
       /\ selCount' # selCount
            => /\ selCount' = selCount + 1
               /\ \E k \in FirstRows(api_keys) :
                    /\ lastKey' = k
                    /\ DOMAIN api_keys' = DOMAIN api_keys
                    /\ api_keys'[k].usage_count = api_keys[k].usage_count + 1
                    /\ api_keys'[k].last_used = clock'
                    /\ \A j \in DOMAIN api_keys \ {k} : api_keys'[j] = api_keys[j]
               /\ Cardinality(Movers) = 1
               /\ \A h \in Movers :
                    /\ Count(Added(h), {"select"}) = 1
                    /\ req'[h].apiKey = lastKey'
    ]_vars

\* Two jobs in flight have each made a selection and wait for their service
\* calls with different keys.
C26_Witness ==
    \E g, h \in Handlers :
        /\ g # h
        /\ req[g].pc = "generate"
        /\ req[h].pc = "generate"
        /\ req[g].apiKey # req[h].apiKey
        /\ selCount = 2

\* C27: in every step (a selection, the outcome of a service call, a restart)
\* every credential stays in the table, its usage_count does not decrease, and
\* its usage_count and last_used change only if the step is a selection that
\* returns this credential.
C27_UsageMonotone ==
    [][\A k \in DOMAIN api_keys :
        /\ k \in DOMAIN api_keys'
        /\ api_keys'[k].usage_count >= api_keys[k].usage_count
        /\ api_keys'[k] # api_keys[k]
              => selCount' = selCount + 1 /\ lastKey' = k /\ req' = req /\ config' = config
    ]_vars

\* Credentials have been selected, a service call has failed with a quota error
\* and the process has been started again with another credential list.
C27_Witness ==
    /\ selCount >= 2
    /\ req[1].lastError = MsgQuota
    /\ config # initialKeys
    /\ \E k \in DOMAIN api_keys : api_keys[k].usage_count >= 2

\* C28: running the initialisation on the current table, with any credential
\* list, keeps every row as it is and adds one unused row for each configured
\* credential that has none; running it a second time changes nothing; and with
\* the list the process was started with it changes nothing at all.
C28_InitIdempotent ==
    /\ InitApiKeys(api_keys, config) = api_keys
    /\ \A cfg \in Configs :
        LET once == InitApiKeys(api_keys, cfg) IN
        /\ InitApiKeys(once, cfg) = once
        /\ DOMAIN once = (DOMAIN api_keys) \cup cfg
        /\ \A k \in DOMAIN api_keys : once[k] = api_keys[k]
        /\ \A k \in cfg \ DOMAIN api_keys : once[k] = [usage_count |-> 0, last_used |-> NULL]

\* The process runs with a shorter credential list than an earlier start, and
\* the table still holds a used credential that is no longer configured.
C28_Witness ==
    /\ config # {}
    /\ \E k \in (DOMAIN api_keys) \ config : api_keys[k].usage_count >= 1
    /\ \E k \in config : api_keys[k].usage_count >= 1

AnalysisFailureNotices == {"edit:analysisfailed", "send:analysisfailed", "edit:rerunfailed"}

\* C29: with no credential configured, a job that enters the analysis step
\* fails at once with the "not configured" error: it makes no selection and no
\* service call, it reads no file, the credential table stays as it was (empty),
\* and the failure notice of the analysis is issued.
C29_NoCredentials ==
    \A h \in Handlers :
        (config = {} /\ Has(req[h].log, "analysis:start"))
        => /\ req[h].thrown = ErrNotConfigured
           /\ Count(req[h].log, {"select", "call", "read:ok", "read:error"}) = 0
           /\ api_keys = EmptyTable
           /\ selCount = 0
           /\ Count(req[h].log, AnalysisFailureNotices) = 1
           /\ First(req[h].log, "analysis:throw") = First(req[h].log, "analysis:start") + 1

\* Without credentials, a job of a message and a re-run have both ended with
\* the failure notice.
C29_Witness ==
    /\ config = {}
    /\ \E g, h \in Handlers :
        /\ Finished(req[g]) /\ Has(req[g].log, "edit:analysisfailed")
        /\ Finished(req[h]) /\ Has(req[h].log, "edit:rerunfailed")
              /\ Has(req[h].log, "analysis:start")

\* The next step of invocation h: the external call it awaits settles.
StepOf(h) ==
    \/ SendNoLinkDone(h) \/ SendDupDone(h) \/ SendStatusDone(h) \/ DownloadDone(h)
    \/ EditWaitingDone(h) \/ MetaDone(h) \/ ReadFileDone(h) \/ GenerateDone(h)
    \/ PersistDone(h) \/ EditFinalDone(h) \/ SendFinalDone(h) \/ EditFailDone(h)
    \/ SendFailDone(h) \/ UnlinkDone(h) \/ SendDlFailDone(h) \/ AnswerDone(h)
    \/ AnswerRerunDone(h) \/ RrEditStartDone(h) \/ RrEditFailDone(h)

\* The invocation waits for downloadToTmp or for the analysis service.
Waits(h) == req[h].pc \in {"download", "generate"}

\* C30: while an invocation waits for a download or an analysis call that does
\* not return, every other invocation in flight can take its next step: its
\* steps need nothing from the waiting one.
C30_HangBlocksOwnJobOnly ==
    \A g, h \in Handlers :
        (g # h /\ Waits(h) /\ req[g].pc # "idle" /\ ~Finished(req[g]))
        => ENABLED StepOf(g)

\* The first job still waits for its download while the event that arrived
\* after it has been processed to its end, analysis included, and acknowledged.
C30_Witness ==
    /\ req[1].pc = "download"
    /\ req[2].pc = "done"
    /\ Has(req[2].log, "analysis:return")
    /\ Has(req[2].log, "ack")

\* Invocation h has started a download and its job is still downloading or being
\* analysed: the download has not failed and the analysis has not ended.
InFlight(h) ==
    /\ Has(req[h].log, "download:start")
    /\ ~Has(req[h].log, "download:fail")
    /\ ~Has(req[h].log, "analysis:return")
    /\ ~Has(req[h].log, "analysis:throw")

\* C31: at any time at most one job per url is downloading or being analysed: an
\* event for a url that arrives while a job for that url is in flight (a second
\* message, a redelivery, a re-run callback) starts no other download or analysis.
C31_OneJobInFlightPerUrl ==
    \A g, h \in Handlers :
        (g # h /\ InFlight(g) /\ InFlight(h)) => req[g].url # req[h].url

\* Two messages with different ids and the same url, both downloading at once.
C31_TwoDownloadsOfOneUrl ==
    \E g, h \in Handlers :
        /\ g # h
        /\ req[g].path = "msg" /\ req[h].path = "msg"
        /\ req[g].mid # req[h].mid
        /\ req[g].url = req[h].url
        /\ req[g].pc = "download" /\ req[h].pc = "download"

\* Invocation h makes a selection that returns a credential.
Selects(h) == Has(Added(h), "select") /\ Has(Added(h), "call")

\* C32: in an analysis run whose attempts have all failed with quota errors, each
\* selection returns a credential the run has not tried yet (so the N selections
\* of the run return the N configured credentials, once each), also when other
\* jobs make selections between the attempts of this run.
C32_RunTriesDistinctCredentials ==
    [][\A h \in Handlers :
        (/\ Selects(h)
         /\ \A i \in DOMAIN req'[h].errors : isQuotaError(req'[h].errors[i]))
        => req'[h].apiKey \notin req[h].tried]_vars

\* C33: every credential a selection returns is one of the credentials configured
\* at that time, also after a start with a changed credential list on a table that
\* still holds the credentials of an earlier list.
C33_SelectsConfiguredOnly ==
    [][selCount' = selCount + 1 => lastKey' \in config]_vars

\* The operations of a job: row writes, the download, the analysis.
JobSteps ==
    {"insert:downloading", "insert:done", "insert:failed", "download:start",
     "analysis:start"}

\* C34: an invocation whose event comes from a chat other than the target chat
\* (a message or a re-run callback) writes no row, starts no download and starts
\* no analysis.
C34_OnlyTargetChatStartsJobs ==
    \A h \in Handlers :
        req[h].chat # TARGET_CHAT_ID => Count(req[h].log, JobSteps) = 0

StatusWrites == {"insert:downloading", "insert:done", "insert:failed"}

\* C35: a status write of one job (downloading, done or failed) leaves the rows of
\* all other message ids as they were: none is deleted, none is changed, also when
\* another job for the same url has a row.
C35_WriteLeavesOtherRows ==
    [][\A h \in Handlers :
        Count(Added(h), StatusWrites) > 0
        => \A e \in downloads : e.message_id # req'[h].mid => e \in downloads']_vars

\* C36: an invocation writes the status failed, or sends the "Failed to download
\* the video link" notice, only if its download failed; a failure after a
\* successful download (analysis, status edit, cleanup) produces neither.
C36_FailedOnlyAfterFailedDownload ==
    \A h \in Handlers :
        (Has(req[h].log, "insert:failed") \/ Has(req[h].log, "send:downloadfailed"))
        => Has(req[h].log, "download:fail")

RECURSIVE SumOver(_, _)
SumOver(f, S) ==
    IF S = {} THEN 0
    ELSE LET x == CHOOSE y \in S : TRUE IN f[x] + SumOver(f, S \ {x})

\* The sum of usage_count over the rows of the table.
TotalUsage(table) ==
    SumOver([k \in DOMAIN table |-> table[k].usage_count], DOMAIN table)

\* The credential rounds the analysis runs of all invocations have started.
RoundsStarted(rq) ==
    SumOver([h \in Handlers |-> Count(rq[h].log, {"select"})], Handlers)

\* C37: a selection adds exactly 1 to the usage_count of the credential it returns
\* and changes the usage_count of no other credential, and no other step changes
\* the table; so after every step the sum of usage_count equals the number of
\* selections made, which equals the number of credential rounds started by the
\* analysis runs of all invocations.
C37_UsageCountsSelections ==
    [][/\ selCount' = selCount + 1
          => /\ DOMAIN api_keys' = DOMAIN api_keys
             /\ lastKey' \in DOMAIN api_keys
             /\ \A k \in DOMAIN api_keys :
                   api_keys'[k].usage_count =
                       api_keys[k].usage_count + (IF k = lastKey' THEN 1 ELSE 0)
       /\ selCount' # selCount + 1 => (selCount' = selCount /\ api_keys' = api_keys)
       /\ TotalUsage(api_keys') = selCount'
       /\ RoundsStarted(req') = selCount']_vars

\* Two jobs have made three selections between them on a table of two credentials,
\* both of which have been returned.
C37_Witness ==
    /\ selCount = 3
    /\ TotalUsage(api_keys) = 3
    /\ Cardinality(DOMAIN api_keys) = 2
    /\ \A k \in DOMAIN api_keys : api_keys[k].usage_count > 0
    /\ \E g, h \in Handlers :
        g # h /\ Has(req[g].log, "select") /\ Count(req[h].log, {"select"}) = 2

\* Entry a occurs in log, and its first occurrence precedes that of entry b.
Precedes(log, a, b) == Has(log, a) /\ First(log, a) < First(log, b)

\* C38: on the message path and on the re-run path the steps of a job are ordered.
\* When its download starts, its row has been written and stands at downloading;
\* its row is written done only after its download has returned successfully, and
\* then stands at done; its analysis, its heartbeat timer and every heartbeat
\* start only after the done write.
C38_JobStepsOrdered ==
    [][\A h \in Handlers :
        LET a == Added(h)
            r == req'[h]
        IN  /\ Has(a, "download:start")
               => /\ Precedes(r.log, "insert:downloading", "download:start")
                  /\ [message_id |-> r.mid, status |-> "downloading", url |-> r.url]
                        \in downloads'
            /\ Has(a, "insert:done")
               => /\ Precedes(r.log, "download:start", "download:ok")
                  /\ Precedes(r.log, "download:ok", "insert:done")
                  /\ ~Has(r.log, "download:fail")
                  /\ [message_id |-> r.mid, status |-> "done", url |-> r.url]
                        \in downloads'
            /\ Has(a, "analysis:start")
               => Precedes(r.log, "insert:done", "analysis:start")
            /\ Has(a, "setInterval")
               => Precedes(r.log, "insert:done", "setInterval")
            /\ r.beats > req[h].beats => Has(req[h].log, "insert:done")]_vars

\* A job of the message path whose heartbeat has fired and a job of the re-run
\* path have both reached their analysis.
C38_Witness ==
    \E g, h \in Handlers :
        /\ req[g].path = "msg" /\ req[g].beats > 0
        /\ Has(req[g].log, "analysis:start")
        /\ req[h].path = "rerun"
        /\ Has(req[h].log, "analysis:start")

\* The invocations other than h that ran a job for url u.
JobsFor(u, h) ==
    {g \in Handlers : g # h /\ req[g].url = u /\ Has(req[g].log, "download:start")}

\* C39: a message with a url of which an ended job downloaded the video and failed
\* in the analysis is treated as already processed (the notice with the re-run
\* button, no fresh job); a message with a url whose jobs all failed in the
\* download starts a fresh job.
C39_AnalysisFailureCountsAsProcessed ==
    [][\A h \in Handlers :
        ArrivesWithUrl(h)
        => LET jobs == JobsFor(req'[h].url, h) IN
           /\ (\E g \in jobs : /\ Finished(req[g])
                                /\ Has(req[g].log, "download:ok")
                                /\ Has(req[g].log, "analysis:throw"))
              => req'[h].path = "dup"
           /\ (jobs # {} /\ \A g \in jobs : Has(req[g].log, "download:fail"))
              => req'[h].path = "msg"]_vars

====
